---- MODULE Spec2Model ----
(***************************************************************************)
(* The taxonomy tree of birds.rs and the persistence adapter of file.rs.   *)
(*                                                                         *)
(* Rc<Node> values are modelled as indices into `nodes`, the sequence of   *)
(* all Node objects allocated so far (an Rc is never dropped while it is   *)
(* in the tree and the tree never removes a child).  Index 0 stands for a  *)
(* Weak that upgrades to None / an Option<Rc<Node>> that is None.          *)
(* A String is a sequence of one-character strings.                        *)
(***************************************************************************)
EXTENDS Integers, Sequences, FiniteSets, TLC

VARIABLES
    nodes,           \* the Node objects; nodes[root] is BirdTree::root
    direct_parents,  \* BirdTree::direct_parents, a Vec of node indices
    last,            \* the call in progress in main's loop (or in the loop of
                     \* load_to_tree) with its result; Idle between calls
    pc               \* where main is: "load" in load_to_tree, "menu" in its
                     \* loop, "exit" after choice 6 or a panic

vars == <<nodes, direct_parents, last, pc>>

\* ------------------------------------------------------------------------
\* Bounds of the model

\* no operation is started that would make the tree larger than this
MaxNodes == 21

\* ------------------------------------------------------------------------
\* Strings

\* the limit of add_group / add_bird on name.len()
MaxNameLen == 50

UpperCase == <<"A","B","C","D","E","F","G","H","I","J","K","L","M",
               "N","O","P","Q","R","S","T","U","V","W","X","Y","Z">>
LowerCase == <<"a","b","c","d","e","f","g","h","i","j","k","l","m",
               "n","o","p","q","r","s","t","u","v","w","x","y","z">>

\* char::to_lowercase on the upper-case letters
LowerOf == [c \in {UpperCase[i] : i \in 1..Len(UpperCase)} |->
               LowerCase[CHOOSE i \in 1..Len(UpperCase) : UpperCase[i] = c]]

\* char::is_whitespace on the characters the model uses
Whitespace == {" ", "\t", "\n"}

to_lowercase_char(c) == IF c \in DOMAIN LowerOf THEN LowerOf[c] ELSE c

\* str::to_lowercase
to_lowercase(s) == [i \in 1..Len(s) |-> to_lowercase_char(s[i])]

\* str::trim: the slice without leading and trailing whitespace
RECURSIVE trim_start_at(_, _)
trim_start_at(s, i) ==
    IF i > Len(s) \/ s[i] \notin Whitespace THEN i ELSE trim_start_at(s, i + 1)

RECURSIVE trim_end_at(_, _)
trim_end_at(s, i) ==
    IF i < 1 \/ s[i] \notin Whitespace THEN i ELSE trim_end_at(s, i - 1)

trim(s) == SubSeq(s, trim_start_at(s, 1), trim_end_at(s, Len(s)))

\* str::split(" "): the pieces between single spaces, empty pieces included
RECURSIVE split_from(_, _, _)
split_from(s, start, i) ==
    IF i > Len(s) THEN <<SubSeq(s, start, Len(s))>>
    ELSE IF s[i] = " "
    THEN <<SubSeq(s, start, i - 1)>> \o split_from(s, i + 1, i + 1)
    ELSE split_from(s, start, i + 1)

split(s) == split_from(s, 1, 1)

\* format!("{} {}", a, b)
format2(a, b) == a \o <<" ">> \o b

\* the comparison every lookup uses:
\* a.to_lowercase().trim() == b.to_lowercase().trim()
name_matches(a, b) == trim(to_lowercase(a)) = trim(to_lowercase(b))

\* Option<T>
None == [some |-> FALSE]
Some(v) == [some |-> TRUE, val |-> v]

\* ------------------------------------------------------------------------
\* Node

new_group(name) ==
    [kind |-> "Group", name |-> name, parent |-> 0, children |-> <<>>]

new_bird(name, scientific_name) ==
    [kind |-> "Bird", name |-> name, scientific_name |-> scientific_name,
     parent |-> 0]

IsGroup(ns, n) == ns[n].kind = "Group"
IsBird(ns, n) == ns[n].kind = "Bird"

\* Node::scientific_name: the name itself for a Group
scientific_name(ns, n) ==
    IF IsBird(ns, n) THEN ns[n].scientific_name ELSE ns[n].name

\* Node::name
name_of(ns, n) == ns[n].name

\* Node::full_scientific_name.  The `?` returns None when the node has no
\* parent; a parent's None becomes "" and the parent's text is trimmed.
RECURSIVE full_scientific_name(_, _)
full_scientific_name(ns, n) ==
    IF ns[n].parent = 0 THEN None
    ELSE LET up == full_scientific_name(ns, ns[n].parent)
             prefix == IF up.some THEN up.val ELSE <<>>
         IN  Some(format2(trim(prefix), scientific_name(ns, n)))

\* Node::add that pushes the child but leaves its parent link unset
add_without_parent_link(ns, self, child) ==
    IF IsBird(ns, self) THEN [ok |-> FALSE, nodes |-> ns]
    ELSE [ok |-> TRUE,
          nodes |-> [ns EXCEPT ![self].children = Append(@, child)]]

\* Node::add: Err(NodeTypeError) on a Bird, else sets the child's parent and
\* pushes the child on the children
add(ns, self, child) ==
    IF IsBird(ns, self) THEN [ok |-> FALSE, nodes |-> ns]
    ELSE [ok |-> TRUE,
          nodes |-> [ns EXCEPT ![child].parent = self,
                               ![self].children = Append(@, child)]]

\* Rc::new(node): the node gets the next index
alloc(ns, node) == Append(ns, node)

\* ------------------------------------------------------------------------
\* BirdTree

\* Result<(), GroupError>
Ok == "Ok"
NoGroupExistsErr == "NoGroupExistsErr"
InputOutsideOfBoundsError == "InputOutsideOfBoundsError"

\* the inner loop of the two searches: the first child from index c on whose
\* name (by_scientific: scientific_name) matches; 0 if none
RECURSIVE search_children(_, _, _, _, _)
search_children(ns, ch, c, name, by_scientific) ==
    IF c > Len(ch) THEN 0
    ELSE IF name_matches(IF by_scientific THEN scientific_name(ns, ch[c])
                         ELSE name_of(ns, ch[c]), name)
    THEN ch[c]
    ELSE search_children(ns, ch, c + 1, name, by_scientific)

\* the outer loop of the two searches, over direct_parents from index g on
RECURSIVE search_direct_parents(_, _, _, _, _)
search_direct_parents(ns, dp, g, name, by_scientific) ==
    IF g > Len(dp) THEN 0
    ELSE LET hit == search_children(ns, ns[dp[g]].children, 1, name,
                                    by_scientific)
         IN  IF hit # 0 THEN hit
             ELSE search_direct_parents(ns, dp, g + 1, name, by_scientific)

\* BirdTree::search_by_scientific_name: the first child, in direct_parents
\* order and then child order, whose scientific_name() matches; 0 for None
search_by_scientific_name(ns, dp, name) ==
    search_direct_parents(ns, dp, 1, name, TRUE)

\* BirdTree::search_by_name: as above on name()
search_by_name(ns, dp, name) ==
    search_direct_parents(ns, dp, 1, name, FALSE)

\* the first loop of get_group_with_name: the first child Group from index
\* i on whose name matches; 0 if none
RECURSIVE first_child_group(_, _, _, _)
first_child_group(ns, ch, i, group_name) ==
    IF i > Len(ch) THEN 0
    ELSE IF IsGroup(ns, ch[i]) /\ name_matches(ns[ch[i]].name, group_name)
    THEN ch[i]
    ELSE first_child_group(ns, ch, i + 1, group_name)

\* BirdTree::get_group_with_name: None (0) on a Bird; else the first direct
\* child Group whose name matches; else the first hit of the recursive call
\* on each child Group in order.  `group` itself is never compared.
RECURSIVE get_group_with_name(_, _, _)
RECURSIVE first_in_child_groups(_, _, _, _)
get_group_with_name(ns, group, group_name) ==
    IF IsBird(ns, group) THEN 0
    ELSE LET direct == first_child_group(ns, ns[group].children, 1, group_name)
         IN  IF direct # 0 THEN direct
             ELSE first_in_child_groups(ns, ns[group].children, 1, group_name)

\* the second loop of get_group_with_name, over the children from index i on
first_in_child_groups(ns, ch, i, group_name) ==
    IF i > Len(ch) THEN 0
    ELSE IF IsGroup(ns, ch[i])
    THEN LET found == get_group_with_name(ns, ch[i], group_name)
         IN  IF found # 0 THEN found
             ELSE first_in_child_groups(ns, ch, i + 1, group_name)
    ELSE first_in_child_groups(ns, ch, i + 1, group_name)

\* the loop of BirdTree::birds_in_group over the children `ch`
RECURSIVE birds_in_children(_, _, _)
birds_in_children(acc, ns, ch) ==
    IF ch = <<>> THEN acc
    ELSE LET child == Head(ch)
         IN  birds_in_children(
                 IF IsBird(ns, child) THEN Append(acc, child)
                 ELSE birds_in_children(acc, ns, ns[child].children),
                 ns, Tail(ch))

\* BirdTree::birds_in_group
birds_in_group(acc, ns, group) == birds_in_children(acc, ns, ns[group].children)

\* BirdTree::birds_in_group_from_name
birds_in_group_from_name(ns, root, group_name) ==
    LET group == get_group_with_name(ns, root, group_name)
    IN  IF group = 0 THEN [result |-> NoGroupExistsErr, birds |-> <<>>]
        ELSE [result |-> Ok, birds |-> birds_in_group(<<>>, ns, group)]

\* add_group that also pushes the parent on direct_parents, as insert_data
\* does
add_group_pushes_parent(ns, dp, root, parent, new_group_name) ==
    IF Len(new_group_name) < 1 \/ Len(new_group_name) > MaxNameLen
    THEN [result |-> InputOutsideOfBoundsError, nodes |-> ns,
          direct_parents |-> dp]
    ELSE LET parent_group == get_group_with_name(ns, root, parent)
         IN  IF parent_group = 0
             THEN [result |-> NoGroupExistsErr, nodes |-> ns,
                   direct_parents |-> dp]
             ELSE LET ns1 == alloc(ns, new_group(new_group_name))
                  IN  [result |-> Ok,
                       nodes |-> add(ns1, parent_group, Len(ns1)).nodes,
                       direct_parents |-> Append(dp, parent_group)]

\* BirdTree::add_group
add_group(ns, dp, root, parent, new_group_name) ==
    IF Len(new_group_name) < 1 \/ Len(new_group_name) > MaxNameLen
    THEN [result |-> InputOutsideOfBoundsError, nodes |-> ns,
          direct_parents |-> dp]
    ELSE LET parent_group == get_group_with_name(ns, root, parent)
         IN  IF parent_group = 0
             THEN [result |-> NoGroupExistsErr, nodes |-> ns,
                   direct_parents |-> dp]
             ELSE LET ns1 == alloc(ns, new_group(new_group_name))
                  IN  [result |-> Ok,
                       nodes |-> add(ns1, parent_group, Len(ns1)).nodes,
                       direct_parents |-> dp]

\* add_bird with the lookup moved before the length checks
add_bird_lookup_first(ns, dp, root, parent, name, sci_name) ==
    LET parent_group == get_group_with_name(ns, root, parent)
    IN  IF parent_group = 0
        THEN [result |-> NoGroupExistsErr, nodes |-> ns, direct_parents |-> dp]
        ELSE IF \/ Len(name) < 1
                \/ Len(name) > MaxNameLen
                \/ Len(sci_name) < 1
                \/ Len(sci_name) > MaxNameLen
        THEN [result |-> InputOutsideOfBoundsError, nodes |-> ns,
              direct_parents |-> dp]
        ELSE LET ns1 == alloc(ns, new_bird(name, sci_name))
             IN  [result |-> Ok,
                  nodes |-> add(ns1, parent_group, Len(ns1)).nodes,
                  direct_parents |-> dp]

\* BirdTree::add_bird
add_bird(ns, dp, root, parent, name, sci_name) ==
    IF \/ Len(name) < 1
       \/ Len(name) > MaxNameLen
       \/ Len(sci_name) < 1
       \/ Len(sci_name) > MaxNameLen
    THEN [result |-> InputOutsideOfBoundsError, nodes |-> ns,
          direct_parents |-> dp]
    ELSE LET parent_group == get_group_with_name(ns, root, parent)
         IN  IF parent_group = 0
             THEN [result |-> NoGroupExistsErr, nodes |-> ns,
                   direct_parents |-> dp]
             ELSE LET ns1 == alloc(ns, new_bird(name, sci_name))
                  IN  [result |-> Ok,
                       nodes |-> add(ns1, parent_group, Len(ns1)).nodes,
                       direct_parents |-> dp]

\* the loop of BirdTree::insert_data over data.parent_nodes[1..]
RECURSIVE insert_walk(_, _, _)
insert_walk(ns, current_group, names) ==
    IF names = <<>> THEN [nodes |-> ns, current_group |-> current_group]
    ELSE LET group == get_group_with_name(ns, current_group, Head(names))
         IN  IF group # 0
             THEN insert_walk(ns, group, Tail(names))
             ELSE LET ns1 == alloc(ns, new_group(Head(names)))
                      new == Len(ns1)
                  IN  insert_walk(add(ns1, current_group, new).nodes, new,
                                  Tail(names))

\* BirdTree::insert_data; parent_nodes[1..] of an empty Vec panics
insert_data(ns, dp, root, data) ==
    IF Len(data.parent_nodes) = 0
    THEN [result |-> "panic", nodes |-> ns, direct_parents |-> dp]
    ELSE LET w == insert_walk(ns, root, Tail(data.parent_nodes))
             ns1 == alloc(w.nodes, new_bird(data.common_name, data.name))
         IN  [result |-> Ok,
              nodes |-> add(ns1, w.current_group, Len(ns1)).nodes,
              direct_parents |-> Append(dp, w.current_group)]

\* ------------------------------------------------------------------------
\* file.rs

\* bird_data_from_bird: parent_nodes is the full scientific name split on
\* " " with every piece lowercased
bird_data_from_bird(ns, bird) ==
    LET pieces == split(full_scientific_name(ns, bird).val)
    IN  [parent_nodes |-> [i \in 1..Len(pieces) |-> to_lowercase(pieces[i])],
         common_name |-> name_of(ns, bird),
         name |-> scientific_name(ns, bird)]

\* the two loops of save_tree: one BirdData per child of each direct parent
RECURSIVE save_data(_, _, _)
save_data(ns, dp, g) ==
    IF g > Len(dp) THEN <<>>
    ELSE LET ch == ns[dp[g]].children
         IN  [i \in 1..Len(ch) |-> bird_data_from_bird(ns, ch[i])]
             \o save_data(ns, dp, g + 1)

save_tree(ns, dp) == save_data(ns, dp, 1)

\* the loop of load_to_tree: insert_data for each record in order
RECURSIVE load_to_tree(_, _, _, _)
load_to_tree(ns, dp, root, birds) ==
    IF birds = <<>> THEN [result |-> Ok, nodes |-> ns, direct_parents |-> dp]
    ELSE LET r == insert_data(ns, dp, root, Head(birds))
         IN  IF r.result # Ok THEN r
             ELSE load_to_tree(r.nodes, r.direct_parents, root, Tail(birds))

\* ------------------------------------------------------------------------
\* build_tree: the hardcoded tree

str_Animalia == <<"A","n","i","m","a","l","i","a">>
str_Chordata == <<"C","h","o","r","d","a","t","a">>
str_Aves == <<"A","v","e","s">>
str_Psittiaciformes == <<"P","s","i","t","t","i","a","c","i","f","o","r","m","e","s">>
str_Apterygiformes == <<"A","p","t","e","r","y","g","i","f","o","r","m","e","s">>
str_Passeriformes == <<"P","a","s","s","e","r","i","f","o","r","m","e","s">>
str_Strigopidae == <<"S","t","r","i","g","o","p","i","d","a","e">>
str_Apterygidae == <<"A","p","t","e","r","y","g","i","d","a","e">>
str_Rhipiduridae == <<"R","h","i","p","i","d","u","r","i","d","a","e">>
str_Meliphagidae == <<"M","e","l","i","p","h","a","g","i","d","a","e">>
str_Nestor == <<"N","e","s","t","o","r">>
str_Apteryx == <<"A","p","t","e","r","y","x">>
str_Rhipidura == <<"R","h","i","p","i","d","u","r","a">>
str_Prosthemadera == <<"P","r","o","s","t","h","e","m","a","d","e","r","a">>
str_Kaka == <<"K","a","k","a">>
str_meridionalis == <<"m","e","r","i","d","i","o","n","a","l","i","s">>
str_Kea == <<"K","e","a">>
str_notabilis == <<"n","o","t","a","b","i","l","i","s">>
str_Little_Spotted_Kiwi == <<"L","i","t","t","l","e"," ","S","p","o","t","t","e","d"," ","K","i","w","i">>
str_owenii == <<"o","w","e","n","i","i">>
str_Piwakawaka == <<"P","i","w","a","k","a","w","a","k","a">>
str_fuliginosa == <<"f","u","l","i","g","i","n","o","s","a">>
str_Tui == <<"T","u","i">>
str_novaeseelandiea == <<"n","o","v","a","e","s","e","e","l","a","n","d","i","e","a">>

\* the Rc::new(Node::new_group(..)) lines, in order
fixture_groups ==
    <<str_Animalia, str_Chordata, str_Aves, str_Psittiaciformes,
      str_Apterygiformes, str_Passeriformes, str_Strigopidae, str_Apterygidae,
      str_Rhipiduridae, str_Meliphagidae, str_Nestor, str_Apteryx,
      str_Rhipidura, str_Prosthemadera>>

\* node indices of the fixture's groups
animalia == 1
chordata == 2
aves == 3
psittiaciformes == 4
apterygiformes == 5
passeriformes == 6
strigopidae == 7
apterygidae == 8
rhipiduridae == 9
meliphagidae == 10
nestor == 11
apteryx == 12
rhipidura == 13
prosthemadera == 14

\* "organise tree of groups": the <<parent, child>> of each add, in order
fixture_edges ==
    <<<<animalia, chordata>>, <<chordata, aves>>, <<aves, psittiaciformes>>,
      <<aves, apterygiformes>>, <<aves, passeriformes>>,
      <<psittiaciformes, strigopidae>>, <<apterygiformes, apterygidae>>,
      <<passeriformes, rhipiduridae>>, <<passeriformes, meliphagidae>>,
      <<strigopidae, nestor>>, <<apterygidae, apteryx>>,
      <<rhipiduridae, rhipidura>>, <<meliphagidae, prosthemadera>>>>

\* "add birds to groups": <<parent, name, scientific_name>>, in order
fixture_birds ==
    <<<<nestor, str_Kaka, str_meridionalis>>,
      <<nestor, str_Kea, str_notabilis>>,
      <<apteryx, str_Little_Spotted_Kiwi, str_owenii>>,
      <<rhipidura, str_Piwakawaka, str_fuliginosa>>,
      <<prosthemadera, str_Tui, str_novaeseelandiea>>>>

RECURSIVE add_edges(_, _)
add_edges(ns, edges) ==
    IF edges = <<>> THEN ns
    ELSE add_edges(add(ns, Head(edges)[1], Head(edges)[2]).nodes, Tail(edges))

RECURSIVE add_birds(_, _)
add_birds(ns, birds) ==
    IF birds = <<>> THEN ns
    ELSE LET b == Head(birds)
             ns1 == alloc(ns, new_bird(b[2], b[3]))
         IN  add_birds(add(ns1, b[1], Len(ns1)).nodes, Tail(birds))

\* BirdTree::new: None if the root or a direct parent is a Bird
BirdTree_new(ns, root, dp) ==
    IF IsBird(ns, root) \/ \E i \in 1..Len(dp) : IsBird(ns, dp[i])
    THEN None
    ELSE Some([nodes |-> ns, root |-> root, direct_parents |-> dp])

\* "create bird groups": one Rc::new(Node::new_group(name)) per name
RECURSIVE alloc_groups(_, _)
alloc_groups(ns, names) ==
    IF names = <<>> THEN ns
    ELSE alloc_groups(alloc(ns, new_group(Head(names))), Tail(names))

\* the nodes once every add of build_tree has run
fixture_nodes ==
    add_birds(add_edges(alloc_groups(<<>>, fixture_groups), fixture_edges),
              fixture_birds)

build_tree ==
    BirdTree_new(fixture_nodes, animalia,
                 <<nestor, apteryx, rhipidura, prosthemadera>>).val

\* BirdTree::root: set by build_tree and never reassigned
root == build_tree.root

\* ------------------------------------------------------------------------
\* Inputs: the lines the user types at the prompts of main (in_, before
\* get_user_input trims them) and the strings birdData.json holds (js_)

in_Empty == <<>>
in_NESTOR == <<"N","E","S","T","O","R"," ">>
in_Aves == <<"A","v","e","s">>
in_Animalia == <<"A","n","i","m","a","l","i","a">>
in_Anthornis == <<"A","n","t","h","o","r","n","i","s">>
in_Reptilia == <<"R","e","p","t","i","l","i","a">>
in_Meliphagidae == <<"M","e","l","i","p","h","a","g","i","d","a","e">>
in_Nestor == <<"N","e","s","t","o","r">>
in_Bellbird == <<"B","e","l","l","b","i","r","d">>
in_melanura == <<"m","e","l","a","n","u","r","a">>
in_bellbird == <<"b","e","l","l","b","i","r","d">>
in_Kea == <<"K","e","a">>
in_OWENII == <<" ","O","W","E","N","I","I"," ">>
js_animalia == <<"a","n","i","m","a","l","i","a">>
js_chordata == <<"c","h","o","r","d","a","t","a">>
js_aves == <<"a","v","e","s">>
js_nestor == <<"n","e","s","t","o","r"," ">>
js_strigops == <<"s","t","r","i","g","o","p","s">>
js_Kakapo == <<"K","a","k","a","p","o">>
js_habroptilus == <<"h","a","b","r","o","p","t","i","l","u","s">>

\* get_user_input::<String>: the line read from stdin, trimmed
get_user_input(buf) == trim(buf)

\* a name one byte longer than add_group and add_bird accept
in_TooLong == [i \in 1..(MaxNameLen + 1) |-> "x"]

\* names typed at "Enter the parent group" / "Enter the bird group"
ParentNames ==
    {in_NESTOR, in_Aves, in_Animalia, in_Anthornis, in_Reptilia, in_Meliphagidae}

\* names typed at "Enter the new group name"
NewGroupNames == {in_Anthornis, in_Nestor, in_Empty, in_TooLong}

\* names typed at "Enter the new bird name"
BirdNames == {in_Bellbird, in_Empty, in_TooLong}

\* names typed at "Enter the new bird's scientific name"
BirdScientificNames == {in_melanura, in_Empty, in_TooLong}

\* names typed at "Enter the name of the bird"
NameQueries == {in_bellbird, in_Kea, in_Anthornis}

\* names typed at "Enter the scientific name of the bird"
ScientificNameQueries == {in_OWENII, in_melanura, in_Anthornis}

\* records of birdData.json
FileRecords ==
    {[parent_nodes |-> <<js_animalia, js_nestor>>,
      name |-> js_habroptilus, common_name |-> js_Kakapo],
     [parent_nodes |-> <<js_animalia, js_chordata, js_aves, js_strigops>>,
      name |-> js_habroptilus, common_name |-> js_Kakapo],
     [parent_nodes |-> <<js_animalia, js_chordata, js_aves>>,
      name |-> js_habroptilus, common_name |-> js_Kakapo],
     [parent_nodes |-> <<>>,
      name |-> js_habroptilus, common_name |-> js_Kakapo]}

\* ------------------------------------------------------------------------
\* The state machine: main's calls on the tree

\* no call in progress: load_to_tree is between two records, or main is at
\* its menu
Idle == [op |-> "none"]

Init ==
    /\ nodes = build_tree.nodes
    /\ direct_parents = build_tree.direct_parents
    /\ last = Idle
    /\ pc = "load"

\* load_to_tree's tree.insert_data(bird)
InsertData ==
    /\ pc = "load" /\ last = Idle
    /\ \E data \in FileRecords :
         LET r == insert_data(nodes, direct_parents, root, data)
         IN  /\ Len(r.nodes) <= MaxNodes
             /\ nodes' = r.nodes
             /\ direct_parents' = r.direct_parents
             /\ last' = [op |-> "insert_data", data |-> data,
                         result |-> r.result]
             /\ pc' = IF r.result = Ok THEN "load" ELSE "exit"

\* load_to_tree returns: every record of the file has been inserted
LoadDone ==
    /\ pc = "load" /\ last = Idle
    /\ pc' = "menu"
    /\ UNCHANGED <<nodes, direct_parents, last>>

\* choice 1
SearchByName ==
    /\ pc = "menu" /\ last = Idle
    /\ \E buf \in NameQueries :
         LET name == get_user_input(buf)
         IN  last' = [op |-> "search_by_name", name |-> name,
                      found |-> search_by_name(nodes, direct_parents, name)]
    /\ UNCHANGED <<nodes, direct_parents, pc>>

\* choice 2
SearchByScientificName ==
    /\ pc = "menu" /\ last = Idle
    /\ \E buf \in ScientificNameQueries :
         LET name == get_user_input(buf)
         IN  last' = [op |-> "search_by_scientific_name", name |-> name,
                      found |-> search_by_scientific_name(
                                    nodes, direct_parents, name)]
    /\ UNCHANGED <<nodes, direct_parents, pc>>

\* choice 3
BirdsInGroupFromName ==
    /\ pc = "menu" /\ last = Idle
    /\ \E buf \in ParentNames :
         LET group_name == get_user_input(buf)
             r == birds_in_group_from_name(nodes, root, group_name)
         IN  last' = [op |-> "birds_in_group_from_name",
                      group_name |-> group_name,
                      result |-> r.result, birds |-> r.birds]
    /\ UNCHANGED <<nodes, direct_parents, pc>>

\* choice 4
AddGroup ==
    /\ pc = "menu" /\ last = Idle
    /\ \E buf1 \in ParentNames, buf2 \in NewGroupNames :
         LET parent == get_user_input(buf1)
             new_group_name == get_user_input(buf2)
             r == add_group(nodes, direct_parents, root, parent, new_group_name)
         IN  /\ Len(r.nodes) <= MaxNodes
             /\ nodes' = r.nodes
             /\ direct_parents' = r.direct_parents
             /\ last' = [op |-> "add_group", parent |-> parent,
                         name |-> new_group_name, result |-> r.result]
    /\ UNCHANGED pc

\* choice 5
AddBird ==
    /\ pc = "menu" /\ last = Idle
    /\ \E buf1 \in ParentNames, buf2 \in BirdNames,
          buf3 \in BirdScientificNames :
         LET parent == get_user_input(buf1)
             name == get_user_input(buf2)
             sci_name == get_user_input(buf3)
             r == add_bird(nodes, direct_parents, root, parent, name, sci_name)
         IN  /\ Len(r.nodes) <= MaxNodes
             /\ nodes' = r.nodes
             /\ direct_parents' = r.direct_parents
             /\ last' = [op |-> "add_bird", parent |-> parent, name |-> name,
                         scientific_name |-> sci_name, result |-> r.result]
    /\ UNCHANGED pc

\* choice 6: save_tree, then break
SaveTree ==
    /\ pc = "menu" /\ last = Idle
    /\ last' = [op |-> "save_tree", data |-> save_tree(nodes, direct_parents)]
    /\ pc' = "exit"
    /\ UNCHANGED <<nodes, direct_parents>>

\* the result has been printed and the loop starts its next iteration
Continue ==
    /\ pc # "exit" /\ last # Idle
    /\ last' = Idle
    /\ UNCHANGED <<nodes, direct_parents, pc>>

Next ==
    \/ InsertData
    \/ LoadDone
    \/ SearchByName
    \/ SearchByScientificName
    \/ BirdsInGroupFromName
    \/ AddGroup
    \/ AddBird
    \/ SaveTree
    \/ Continue

Spec == Init /\ [][Next]_vars

\* ------------------------------------------------------------------------
\* Vocabulary of the properties: the tree as the parent links and the child
\* lists describe it

Taxa == {n \in 1..Len(nodes) : IsGroup(nodes, n)}
Species == {n \in 1..Len(nodes) : IsBird(nodes, n)}

\* the nodes from the topmost ancestor of n down to n
RECURSIVE PathFromRoot(_, _)
PathFromRoot(ns, n) ==
    IF ns[n].parent = 0 THEN <<n>>
    ELSE Append(PathFromRoot(ns, ns[n].parent), n)

\* n lies in the subtree of t (t itself included)
InSubtree(ns, t, n) ==
    \E i \in 1..Len(PathFromRoot(ns, n)) : PathFromRoot(ns, n)[i] = t

\* the position of each node of PathFromRoot(n), the first excepted, in the
\* child list of its parent
RECURSIVE ChildIndexPath(_, _)
ChildIndexPath(ns, n) ==
    IF ns[n].parent = 0 THEN <<>>
    ELSE LET ch == ns[ns[n].parent].children
         IN  Append(ChildIndexPath(ns, ns[n].parent),
                    CHOOSE i \in 1..Len(ch) : ch[i] = n)

\* a is visited before b by a depth-first pre-order walk: a is a proper
\* ancestor of b, or a's branch leaves the common ancestor's child list earlier
PreOrderBefore(ns, a, b) ==
    LET pa == ChildIndexPath(ns, a)
        pb == ChildIndexPath(ns, b)
    IN  \/ Len(pa) < Len(pb) /\ SubSeq(pb, 1, Len(pa)) = pa
        \/ \E k \in 1..Len(pa) :
             /\ k <= Len(pb)
             /\ SubSeq(pa, 1, k - 1) = SubSeq(pb, 1, k - 1)
             /\ pa[k] < pb[k]

\* s1 \o <<" ">> \o s2 \o ... for the names of the nodes of `path`
RECURSIVE JoinNames(_, _)
JoinNames(ns, path) ==
    IF Len(path) = 1 THEN scientific_name(ns, path[1])
    ELSE JoinNames(ns, SubSeq(path, 1, Len(path) - 1)) \o <<" ">>
         \o scientific_name(ns, path[Len(path)])

\* a name add_group and add_bird must refuse
BadName(n) == Len(n) = 0 \/ Len(n) > MaxNameLen

\* the elements of a sequence
Range(s) == {s[i] : i \in 1..Len(s)}

\* ------------------------------------------------------------------------
\* Properties

\* C1: whenever add_bird(p, c, e) has just returned Ok, search_by_name(c)
\* returns the Bird that was just added (the node allocated last).
C1_FoundAfterAddBird ==
    (last.op = "add_bird" /\ last.result = Ok)
        => search_by_name(nodes, direct_parents, last.name) = Len(nodes)

\* C2: every Bird of the tree is a direct child of at least one entry of
\* direct_parents.
C2_EveryBirdUnderDirectParent ==
    \A n \in Species :
        \E i \in 1..Len(direct_parents) :
            /\ nodes[n].parent = direct_parents[i]
            /\ n \in Range(nodes[direct_parents[i]].children)

\* C3: full_scientific_name(n) is the names from the root (included) down to
\* n's parent and then scientific_name(n), joined by single spaces; for a node
\* without parent it is the node's own scientific_name.
C3_PathFromRootIncluded ==
    \A n \in 1..Len(nodes) :
        full_scientific_name(nodes, n) = Some(JoinNames(nodes, PathFromRoot(nodes, n)))

\* the tree that holds only the root taxon
RootOnly == <<new_group(nodes[root].name)>>

\* the tree obtained by ingesting every save record of the current tree into
\* RootOnly
Reloaded == load_to_tree(RootOnly, <<>>, 1, save_tree(nodes, direct_parents))

\* the (full scientific path, common name) pairs of the Birds of a tree, the
\* path compared up to letter case
PathPairs(ns) ==
    {<<to_lowercase(full_scientific_name(ns, n).val), name_of(ns, n)>> :
        n \in {m \in 1..Len(ns) : IsBird(ns, m)}}

\* C4: saving the tree and ingesting the records into a tree that holds only
\* the root yields the same set of (full scientific path, common name) pairs.
C4_RoundTrip ==
    /\ Reloaded.result = Ok
    /\ PathPairs(Reloaded.nodes) = PathPairs(nodes)

\* C5: add_group with an empty or over-long new name, and add_bird with an
\* empty or over-long name or scientific name, return
\* InputOutsideOfBoundsError whatever the parent name is, and leave the tree
\* and direct_parents as they were.
C5_BadNameRefused ==
    [][(\/ last'.op = "add_group" /\ BadName(last'.name)
        \/ last'.op = "add_bird"
           /\ (BadName(last'.name) \/ BadName(last'.scientific_name)))
       => /\ last'.result = InputOutsideOfBoundsError
          /\ nodes' = nodes
          /\ direct_parents' = direct_parents]_vars

\* C5 witness: add_bird was called with a valid name, an over-long scientific
\* name and a parent name no taxon has, and returned InputOutsideOfBoundsError.
C5_Witness ==
    /\ last.op = "add_bird"
    /\ ~BadName(last.name)
    /\ Len(last.scientific_name) > MaxNameLen
    /\ \A t \in Taxa : ~name_matches(nodes[t].name, last.parent)
    /\ last.result = InputOutsideOfBoundsError

\* the Birds in the subtree of t in depth-first pre-order, as a property of a
\* sequence: no Bird twice, exactly the Birds of the subtree, in walk order
IsPreOrderSpeciesOf(ns, t, birds) ==
    /\ \A i, j \in 1..Len(birds) : i < j => PreOrderBefore(ns, birds[i], birds[j])
    /\ Range(birds) = {n \in 1..Len(ns) : IsBird(ns, n) /\ InSubtree(ns, t, n)}

\* C6: for every taxon t of the tree, birds_in_group_from_name(t.name) is Ok
\* and returns exactly the Birds of t's subtree, each once, in pre-order.
C6_EnumerationComplete ==
    \A t \in Taxa :
        LET r == birds_in_group_from_name(nodes, root, nodes[t].name)
        IN  r.result = Ok /\ IsPreOrderSpeciesOf(nodes, t, r.birds)

\* the taxa whose name matches q
Matching(q) == {t \in Taxa : name_matches(nodes[t].name, q)}

\* C7: the lookup finds the first taxon in depth-first pre-order from the
\* root, the root included, whose name matches, and finds none exactly when no
\* taxon of the tree has such a name.
C7_LookupIsPreOrderFromRoot ==
    \A q \in ParentNames :
        LET found == get_group_with_name(nodes, root, q)
        IN  IF Matching(q) = {} THEN found = 0
            ELSE /\ found \in Matching(q)
                 /\ \A t \in Matching(q) \ {found} :
                        PreOrderBefore(nodes, found, t)

\* C8: after insert_data of a record with a non-empty parent path, the new
\* Bird is the last child of a taxon whose ancestors, from the root's child
\* down to the taxon itself, match parent_nodes[1..] position by position.
C8_IngestFollowsPath ==
    (last.op = "insert_data" /\ Len(last.data.parent_nodes) > 0)
        => LET bird == Len(nodes)
               parent == nodes[bird].parent
               chain == PathFromRoot(nodes, parent)
               path == last.data.parent_nodes
           IN  /\ last.result = Ok
               /\ IsBird(nodes, bird)
               /\ nodes[parent].children[Len(nodes[parent].children)] = bird
               /\ chain[1] = root
               /\ Len(chain) = Len(path)
               /\ \A i \in 2..Len(chain) :
                      name_matches(nodes[chain[i]].name, path[i])

\* C9: every entry of direct_parents is a Group whose children are all Birds,
\* and the two searches return nothing or a Bird.
C9_DirectParentsHoldOnlyBirds ==
    /\ \A i \in 1..Len(direct_parents) :
           /\ IsGroup(nodes, direct_parents[i])
           /\ \A c \in Range(nodes[direct_parents[i]].children) : IsBird(nodes, c)
    /\ \A q \in NameQueries :
           LET found == search_by_name(nodes, direct_parents, q)
           IN  found = 0 \/ IsBird(nodes, found)
    /\ \A q \in ScientificNameQueries :
           LET found == search_by_scientific_name(nodes, direct_parents, q)
           IN  found = 0 \/ IsBird(nodes, found)

\* C10: an add_group that returns Ok allocates exactly one node, a childless
\* Group with the new name whose parent is the taxon the lookup located,
\* pushed at the end of that taxon's children; every other node, every other
\* field and direct_parents stay as they were.  An add_group that returns
\* NoGroupExistsErr changes nothing.
C10_AddGroupFrame ==
    [][last'.op = "add_group" =>
        LET located == get_group_with_name(nodes, root, last'.parent)
            new == Len(nodes) + 1
        IN  /\ last'.result = Ok =>
                /\ located # 0
                /\ Len(nodes') = new
                /\ nodes'[new] = [kind |-> "Group", name |-> last'.name,
                                  parent |-> located, children |-> <<>>]
                /\ nodes'[located] =
                       [nodes[located] EXCEPT !.children = Append(@, new)]
                /\ \A n \in 1..Len(nodes) : n # located => nodes'[n] = nodes[n]
                /\ direct_parents' = direct_parents
            /\ last'.result = NoGroupExistsErr =>
                /\ located = 0
                /\ nodes' = nodes
                /\ direct_parents' = direct_parents]_vars

\* C10 witness: add_group returned Ok on a parent that already had a child,
\* and the node allocated last is a childless Group at the end of that
\* parent's children.
C10_Witness ==
    /\ last.op = "add_group"
    /\ last.result = Ok
    /\ IsGroup(nodes, Len(nodes))
    /\ nodes[Len(nodes)].children = <<>>
    /\ LET ch == nodes[nodes[Len(nodes)].parent].children
       IN  Len(ch) > 1 /\ ch[Len(ch)] = Len(nodes)

\* the number of positions of the child list of taxon t that hold n
Occurrences(ns, t, n) ==
    Cardinality({i \in 1..Len(ns[t].children) : ns[t].children[i] = n})

\* following parent links from n reaches the root within `fuel` steps; since
\* fuel is the number of nodes, a walk that succeeds visits no node twice
RECURSIVE ReachesRoot(_, _, _)
ReachesRoot(ns, n, fuel) ==
    IF n = root THEN TRUE
    ELSE IF fuel = 0 \/ ns[n].parent = 0 THEN FALSE
    ELSE ReachesRoot(ns, ns[n].parent, fuel - 1)

\* the structure is a tree rooted at root
IsTree(ns) ==
    /\ IsGroup(ns, root) /\ ns[root].parent = 0
    /\ \A t \in 1..Len(ns) : IsGroup(ns, t) => Occurrences(ns, t, root) = 0
    /\ \A n \in (1..Len(ns)) \ {root} :
           /\ ns[n].parent \in 1..Len(ns)
           /\ IsGroup(ns, ns[n].parent)
           /\ Occurrences(ns, ns[n].parent, n) = 1
           /\ \A t \in 1..Len(ns) :
                  (IsGroup(ns, t) /\ t # ns[n].parent)
                      => Occurrences(ns, t, n) = 0
           /\ ReachesRoot(ns, n, Len(ns))
    /\ \A n \in 1..Len(ns) :
           IsBird(ns, n) => ns[n].parent # 0 /\ "children" \notin DOMAIN ns[n]

\* every node of the tree before the step is a node of the tree after it,
\* of the same kind and with the same names
NodesKept ==
    /\ Len(nodes') >= Len(nodes)
    /\ \A n \in 1..Len(nodes) :
           /\ nodes'[n].kind = nodes[n].kind
           /\ nodes'[n].name = nodes[n].name
           /\ scientific_name(nodes', n) = scientific_name(nodes, n)
           /\ ReachesRoot(nodes', n, Len(nodes'))

\* C11: in every reachable state the structure is a tree: the root has no
\* parent, every other node is exactly once in the child list of exactly one
\* taxon, which its parent link designates, every Bird has a parent and no
\* children, the parent links lead from every node to the root without a
\* repeat; and no step removes a node.
C11_TreeShapeKept == []IsTree(nodes) /\ [][NodesKept]_vars

\* C11 witness: insert_data has created a taxon and the Bird under it, two
\* nodes more than build_tree allocated.
C11_Witness ==
    /\ last.op = "insert_data"
    /\ last.result = Ok
    /\ Len(nodes) = Len(fixture_nodes) + 2
    /\ IsGroup(nodes, Len(nodes) - 1)
    /\ IsBird(nodes, Len(nodes))
    /\ nodes[Len(nodes)].parent = Len(nodes) - 1

====
